---- MODULE Spec2Model ----
(***************************************************************************)
(* Device command lifecycle and geofence monitoring of the GPS tracker     *)
(* server (src/server/routes.ts).  The persistent store is the state; each *)
(* HTTP handler is one action that runs to completion (sequential          *)
(* requests).  The response to the last request is kept in `last`.         *)
(***************************************************************************)
EXTENDS Integers, Sequences, FiniteSets, TLC

VARIABLES
    commands,   \* rows of device_commands, in creation order; row i has id i
    configs,    \* rows of device_configurations, in creation order; row i has id -i
    logs,       \* rows of system_logs, in creation order
    geofences,  \* rows of geofences still stored
    geoCount,   \* number of geofence rows ever inserted (ids are never reused)
    locations,  \* rows of device_locations, in creation order
    alerts,     \* rows of geofence_alerts, in creation order
    inflight,   \* the requests that run concurrently, one per slot
    last        \* the response to the last request: its kind and its payload

vars == <<commands, configs, logs, geofences, geoCount, locations, alerts, inflight,
         last>>
store == <<commands, configs, logs, geofences, geoCount, locations, alerts, inflight>>

\* ------------------------------------------------------------------ bounds
MaxCmds == 3
MaxCfgs == 2
MaxLogs == 3
MaxGeofences == 2
MaxLocations == 2
MaxAlerts == 3

\* ------------------------------------------------------------ input domains
Registered == {"d1", "d2"}          \* device ids the store knows
DeviceIds == Registered \cup {"dx"} \* "dx" is not registered

Absent == "absent"                  \* a field the request does not carry / null

CommandType == {"enable_lost_mode", "disable_lost_mode", "get_location",
                "update_config", "reboot", "enable_geofence_monitoring",
                "disable_geofence_monitoring"}
CommandStatus == {"pending", "sent", "acknowledged", "executed", "failed", "expired"}
ConfigurationStatus == {"pending", "sent", "applied", "failed"}

\* Statuses a request may carry: the declared ones and "cancelled".
AnyStatus == CommandStatus \cup {"cancelled"}

\* The request inputs the specifications draw from.
OneDevice == {"d1"}
AckStatuses == {"pending", "acknowledged", "executed"}
Payloads == {"cfgA"}
DeviceAckStatuses == {Absent, "executed"}

\* Request bodies of POST /api/devices/:deviceId/commands used as inputs.
CreateBodies ==
    {[commandType |-> t, commandData |-> Absent, status |-> Absent] :
        t \in {"enable_lost_mode", "disable_lost_mode", "update_config", Absent}}
    \cup {[commandType |-> "update_config", commandData |-> p, status |-> Absent] :
        p \in Payloads}
    \cup {[commandType |-> "enable_lost_mode", commandData |-> Absent,
           status |-> "executed"]}

CmdIds == 1..MaxCmds
CfgIds == {-i : i \in 1..MaxCfgs}
Ids == CmdIds \cup CfgIds

\* The slots of concurrently running requests, and a slot with no request: a
\* request has a position (idle, write, done), its arguments, the ids it read
\* from the store and, when done, the code of its answer.
Requests == {1, 2}
Idle == [pc |-> "idle", deviceId |-> Absent, body |-> [none |-> TRUE], read |-> {},
         code |-> 0]

\* ------------------------------------------------------- persistence layer
\* storage.getPendingCommandsByDevice
getPendingCommandsByDevice(cmds, d) ==
    SelectSeq(cmds, LAMBDA c : c.deviceId = d /\ c.status = "pending")

\* storage.getPendingConfigurationsByDevice
getPendingConfigurationsByDevice(cfgs, d) ==
    SelectSeq(cfgs, LAMBDA c : c.deviceId = d /\ c.status = "pending")

\* storage.updateCommandStatus: TRUE iff a row has the id
commandExists(cmds, id) == id \in 1..Len(cmds)
updateCommandStatus(cmds, id, st) ==
    IF commandExists(cmds, id) THEN [cmds EXCEPT ![id].status = st] ELSE cmds

\* storage.updateConfigurationStatus: TRUE iff a row has the id
configExists(cfgs, id) == (-id) \in 1..Len(cfgs)
updateConfigurationStatus(cfgs, id, st) ==
    IF configExists(cfgs, id) THEN [cfgs EXCEPT ![-id].status = st] ELSE cfgs

\* storage.createDeviceCommand: the status column defaults to "pending"
createDeviceCommand(cmds, d, t, data, st) ==
    Append(cmds, [id |-> Len(cmds) + 1, deviceId |-> d, commandType |-> t,
                  commandData |-> data,
                  status |-> IF st = Absent THEN "pending" ELSE st])

\* storage.createDeviceConfiguration
createDeviceConfiguration(cfgs, d, data, st) ==
    Append(cfgs, [id |-> -(Len(cfgs) + 1), deviceId |-> d, configData |-> data,
                  status |-> st])

\* storage.addSystemLog
addSystemLog(lg, d, cat) == Append(lg, [deviceId |-> d, category |-> cat])

\* storage.getGeofencesByDevice: every geofence row of the device
getGeofencesByDevice(gs, d) == {g \in gs : g.deviceId = d}

\* ------------------------------------------------------------------ helpers
\* Array.prototype.find as an index: the first of the matching positions, 0 if
\* there is none
FindIndex(matching) ==
    IF matching = {} THEN 0 ELSE CHOOSE i \in matching : \A j \in matching : i <= j

\* res.status(code).json(body)
Reply(code, body) == last' = [code |-> code, body |-> body]

\* The error bodies of the handlers.
Error(message) == [error |-> message]
DeviceNotFound == Error("Device not found")

Init ==
    /\ commands = <<>>
    /\ configs = <<>>
    /\ logs = <<>>
    /\ geofences = {}
    /\ geoCount = 0
    /\ locations = <<>>
    /\ alerts = <<>>
    /\ inflight = [r \in Requests |-> Idle]
    /\ last = [code |-> 0, body |-> [none |-> TRUE]]

\* ------------------------------------- POST /api/devices/:deviceId/commands
\* Mutant of existingCommand: the dedup check ignores the requested type.
existingCommand_AnyType(cmds, d, t) ==
    LET pendingCommands == getPendingCommandsByDevice(cmds, d)
    IN  FindIndex({i \in 1..Len(pendingCommands) :
                      pendingCommands[i].status = "pending"})

\* The dedup check: position, in the device's pending list, of the first
\* pending command of the requested type (0 if none).
existingCommand(cmds, d, t) ==
    LET pendingCommands == getPendingCommandsByDevice(cmds, d)
    IN  FindIndex({i \in 1..Len(pendingCommands) :
                      /\ pendingCommands[i].commandType = t
                      /\ pendingCommands[i].status = "pending"})

\* update_config: every pending update_config command of the device is cancelled.
cancelExistingConfigCommands(cmds, d) ==
    [i \in 1..Len(cmds) |->
        IF /\ cmds[i].deviceId = d
           /\ cmds[i].status = "pending"
           /\ cmds[i].commandType = "update_config"
        THEN [cmds[i] EXCEPT !.status = "cancelled"]
        ELSE cmds[i]]

\* The configuration row is written for update_config with a truthy commandData.
writesConfiguration(body) ==
    body.commandType = "update_config" /\ body.commandData # Absent

Create(d, body) ==
    LET t == body.commandType
        pending == getPendingCommandsByDevice(commands, d)
        existing == existingCommand(commands, d, t)
    IN  IF d \notin Registered
        THEN Reply(404, DeviceNotFound) /\ UNCHANGED store
        ELSE IF t = Absent
        THEN Reply(400, Error("Invalid command data")) /\ UNCHANGED store
        ELSE IF t # "update_config" /\ existing # 0
        THEN Reply(400, [error |-> "command already pending for this device",
                         existingCommandId |-> pending[existing].id])
             /\ UNCHANGED store
        ELSE LET kept == IF t = "update_config"
                         THEN cancelExistingConfigCommands(commands, d)
                         ELSE commands
                 created == createDeviceCommand(kept, d, t, body.commandData,
                                                body.status)
             IN  /\ Len(commands) < MaxCmds
                 /\ Len(logs) < MaxLogs
                 /\ writesConfiguration(body) => Len(configs) < MaxCfgs
                 /\ commands' = created
                 /\ configs' = IF writesConfiguration(body)
                               THEN createDeviceConfiguration(
                                        configs, d, body.commandData, "pending")
                               ELSE configs
                 /\ logs' = addSystemLog(logs, d, "command")
                 /\ UNCHANGED <<geofences, geoCount, locations, alerts, inflight>>
                 /\ Reply(201, created[Len(created)])

\* ------------------------------------ POST /api/devices/:deviceId/lost-mode
\* Position, in the device's pending list, of the first lost-mode command.
existingLostModeCommand(cmds, d) ==
    LET pendingCommands == getPendingCommandsByDevice(cmds, d)
    IN  FindIndex({i \in 1..Len(pendingCommands) :
                      \/ pendingCommands[i].commandType = "enable_lost_mode"
                      \/ pendingCommands[i].commandType = "disable_lost_mode"})

\* Mutant of LostMode: the pending lost-mode command is cancelled before the
\* conflict check.
LostMode_CancelsFirst(d, lostMode) ==
    LET want == IF lostMode THEN "enable_lost_mode" ELSE "disable_lost_mode"
        pending == getPendingCommandsByDevice(commands, d)
        existing == existingLostModeCommand(commands, d)
        kept == IF existing # 0
                THEN updateCommandStatus(commands, pending[existing].id, "cancelled")
                ELSE commands
    IN  IF d \notin Registered
        THEN Reply(404, DeviceNotFound) /\ UNCHANGED store
        ELSE IF existing # 0 /\ pending[existing].commandType = want
        THEN /\ Reply(400, [error |-> "Lost mode command already pending",
                            canCancel |-> TRUE,
                            commandId |-> pending[existing].id])
             /\ commands' = kept
             /\ UNCHANGED <<configs, logs, geofences, geoCount, locations, alerts, inflight>>
        ELSE LET created == createDeviceCommand(kept, d, want, Absent, "pending")
             IN  /\ Len(commands) < MaxCmds
                 /\ Len(logs) < MaxLogs
                 /\ commands' = created
                 /\ logs' = addSystemLog(logs, d, "command")
                 /\ UNCHANGED <<configs, geofences, geoCount, locations, alerts, inflight>>
                 /\ Reply(200, [success |-> TRUE,
                                commandId |-> created[Len(created)].id,
                                status |-> "pending"])

LostMode(d, lostMode) ==
    LET want == IF lostMode THEN "enable_lost_mode" ELSE "disable_lost_mode"
        other == IF lostMode THEN "disable_lost_mode" ELSE "enable_lost_mode"
        pending == getPendingCommandsByDevice(commands, d)
        existing == existingLostModeCommand(commands, d)
    IN  IF d \notin Registered
        THEN Reply(404, DeviceNotFound) /\ UNCHANGED store
        ELSE IF existing # 0 /\ pending[existing].commandType = want
        THEN Reply(400, [error |-> IF lostMode
                                   THEN "Lost mode command already pending"
                                   ELSE "Lost mode disable command already pending",
                         canCancel |-> TRUE,
                         commandId |-> pending[existing].id])
             /\ UNCHANGED store
        ELSE LET kept == IF existing # 0 /\ pending[existing].commandType = other
                         THEN updateCommandStatus(commands, pending[existing].id,
                                                  "cancelled")
                         ELSE commands
                 created == createDeviceCommand(kept, d, want, Absent, "pending")
             IN  /\ Len(commands) < MaxCmds
                 /\ Len(logs) < MaxLogs
                 /\ commands' = created
                 /\ logs' = addSystemLog(logs, d, "command")
                 /\ UNCHANGED <<configs, geofences, geoCount, locations, alerts, inflight>>
                 /\ Reply(200, [success |-> TRUE,
                                commandId |-> created[Len(created)].id,
                                status |-> "pending"])

\* ------------------------ DELETE /api/devices/:deviceId/commands/:commandId
\* Mutant of Cancel: the answer and the log entry without the status update.
Cancel_WithoutUpdate(d, id) ==
    IF d \notin Registered
    THEN Reply(404, DeviceNotFound) /\ UNCHANGED store
    ELSE IF ~commandExists(commands, id)
    THEN Reply(404, Error("Command not found")) /\ UNCHANGED store
    ELSE /\ Len(logs) < MaxLogs
         /\ logs' = addSystemLog(logs, d, "command")
         /\ UNCHANGED <<commands, configs, geofences, geoCount, locations, alerts, inflight>>
         /\ Reply(200, [success |-> TRUE, message |-> "Command cancelled"])

Cancel(d, id) ==
    IF d \notin Registered
    THEN Reply(404, DeviceNotFound) /\ UNCHANGED store
    ELSE IF ~commandExists(commands, id)
    THEN Reply(404, Error("Command not found")) /\ UNCHANGED store
    ELSE /\ Len(logs) < MaxLogs
         /\ commands' = updateCommandStatus(commands, id, "cancelled")
         /\ logs' = addSystemLog(logs, d, "command")
         /\ UNCHANGED <<configs, geofences, geoCount, locations, alerts, inflight>>
         /\ Reply(200, [success |-> TRUE, message |-> "Command cancelled"])

\* ---------------------- POST /api/devices/:deviceId/commands/:commandId/ack
\* Mutant of configurationStatusFor: the status is stored as given.
configurationStatusFor_AsGiven(st) == st

\* The status stored in a configuration row on the fallback path.
configurationStatusFor(st) == IF st = "executed" THEN "applied" ELSE st

Ack(d, id, st) ==
    IF d \notin Registered
    THEN Reply(404, DeviceNotFound) /\ UNCHANGED store
    ELSE IF commandExists(commands, id)
    THEN /\ commands' = updateCommandStatus(commands, id, st)
         /\ UNCHANGED <<configs, logs, geofences, geoCount, locations, alerts, inflight>>
         /\ Reply(200, [success |-> TRUE])
    ELSE IF configExists(configs, id)
    THEN /\ configs' = updateConfigurationStatus(configs, id,
                                                 configurationStatusFor(st))
         /\ UNCHANGED <<commands, logs, geofences, geoCount, locations, alerts, inflight>>
         /\ Reply(200, [success |-> TRUE])
    ELSE Reply(404, Error("Command or configuration not found"))
         /\ UNCHANGED store

\* ----------------------- POST /api/device/:deviceId/commands/:commandId/ack
\* The device-facing acknowledgement: no device lookup, no fallback; a request
\* without a status stores "acknowledged".
deviceAckStatus(st) == IF st = Absent THEN "acknowledged" ELSE st

DeviceAck(d, id, st) ==
    IF commandExists(commands, id)
    THEN /\ commands' = updateCommandStatus(commands, id, deviceAckStatus(st))
         /\ UNCHANGED <<configs, logs, geofences, geoCount, locations, alerts, inflight>>
         /\ Reply(200, [success |-> TRUE])
    ELSE Reply(404, Error("Command not found")) /\ UNCHANGED store

\* ------------------------------------- POST /api/device/:deviceId/heartbeat
heartbeatCommands(cmds, cfgs, d) == getPendingCommandsByDevice(cmds, d)

\* Mutant of Heartbeat: the delivered commands are marked as sent.
Heartbeat_MarksSent(d) ==
    /\ commands' = [i \in 1..Len(commands) |->
                        IF commands[i].deviceId = d /\ commands[i].status = "pending"
                        THEN [commands[i] EXCEPT !.status = "sent"]
                        ELSE commands[i]]
    /\ UNCHANGED <<configs, logs, geofences, geoCount, locations, alerts, inflight>>
    /\ IF d \notin Registered
       THEN Reply(404, DeviceNotFound)
       ELSE Reply(200, [success |-> TRUE,
                        commands |-> heartbeatCommands(commands, configs, d)])

Heartbeat(d) ==
    /\ UNCHANGED store
    /\ IF d \notin Registered
       THEN Reply(404, DeviceNotFound)
       ELSE Reply(200, [success |-> TRUE,
                        commands |-> heartbeatCommands(commands, configs, d)])

\* --------------------------------------- GET /api/device/:deviceId/commands
\* A pending configuration in the shape of a command.
configAsCommand(config) ==
    [id |-> config.id, deviceId |-> config.deviceId,
     commandType |-> "update_config", commandData |-> config.configData,
     status |-> config.status]

\* Mutant of allCommands: the pending configurations are left out.
allCommands_CommandsOnly(cmds, cfgs, d) == getPendingCommandsByDevice(cmds, d)

allCommands(cmds, cfgs, d) ==
    LET pendingConfigs == getPendingConfigurationsByDevice(cfgs, d)
    IN  getPendingCommandsByDevice(cmds, d)
        \o [i \in 1..Len(pendingConfigs) |-> configAsCommand(pendingConfigs[i])]

ListPending(d) ==
    /\ UNCHANGED store
    /\ IF d \notin Registered
       THEN Reply(404, DeviceNotFound)
       ELSE Reply(200, [commands |-> allCommands(commands, configs, d)])

\* ------------------------------------------------------ geofence monitoring
\* enableGeofenceMonitoring: the command is written without any dedup check.
enableGeofenceMonitoring(cmds, d) ==
    createDeviceCommand(cmds, d, "enable_geofence_monitoring", "geofence_created",
                        "pending")

\* disableGeofenceMonitoring: the command is written iff the device has no
\* geofence row left.
disablesMonitoring(gs, d) == Cardinality(getGeofencesByDevice(gs, d)) = 0

disableGeofenceMonitoring(cmds, d) ==
    createDeviceCommand(cmds, d, "disable_geofence_monitoring",
                        "no_active_geofences", "pending")

\* ------------------------------------ POST /api/devices/:deviceId/geofences
\* Coordinates are integers: a latitude is a number of metres of arc along the
\* meridian of longitude 0, on which every point of the model lies.
GeofenceBody(n, a, e, c, r) ==
    [name |-> n, isActive |-> a, alertOnEnter |-> e, alertOnExit |-> TRUE,
     centerLatitude |-> c, centerLongitude |-> 0, radius |-> r]

GeofenceBodies ==
    {GeofenceBody("home", a, TRUE, 0, 1) : a \in BOOLEAN}
    \cup {GeofenceBody(Absent, TRUE, TRUE, 0, 1)}

GeofenceCreate(d, body) ==
    IF d \notin Registered
    THEN Reply(404, DeviceNotFound) /\ UNCHANGED store
    ELSE IF body.name = Absent
    THEN Reply(400, Error("Invalid geofence data")) /\ UNCHANGED store
    ELSE LET geofence == [id |-> geoCount + 1, deviceId |-> d,
                          isActive |-> body.isActive,
                          alertOnEnter |-> body.alertOnEnter,
                          alertOnExit |-> body.alertOnExit,
                          centerLatitude |-> body.centerLatitude,
                          centerLongitude |-> body.centerLongitude,
                          radius |-> body.radius]
         IN  /\ geoCount < MaxGeofences
             /\ Len(commands) < MaxCmds
             /\ Len(logs) < MaxLogs
             /\ geofences' = geofences \cup {geofence}
             /\ geoCount' = geoCount + 1
             /\ commands' = enableGeofenceMonitoring(commands, d)
             /\ logs' = addSystemLog(logs, d, "geofence")
             /\ UNCHANGED <<configs, locations, alerts, inflight>>
             /\ Reply(201, geofence)

\* --------------------- DELETE /api/devices/:deviceId/geofences/:geofenceId
GeofenceDelete(d, gid) ==
    IF d \notin Registered
    THEN Reply(404, DeviceNotFound) /\ UNCHANGED store
    ELSE IF ~\E g \in geofences : g.id = gid
    THEN Reply(404, Error("Geofence not found")) /\ UNCHANGED store
    ELSE LET left == {g \in geofences : g.id # gid}
         IN  /\ geofences' = left
             /\ UNCHANGED <<configs, geoCount, locations, alerts, inflight>>
             /\ IF disablesMonitoring(left, d)
                THEN /\ Len(commands) < MaxCmds
                     /\ Len(logs) < MaxLogs
                     /\ commands' = disableGeofenceMonitoring(commands, d)
                     /\ logs' = addSystemLog(logs, d, "geofence")
                ELSE UNCHANGED <<commands, logs>>
             /\ Reply(200, [success |-> TRUE])

\* -------------------------------------- POST /api/device/:deviceId/location
\* calculateDistance: the haversine distance in metres.  For two points of one
\* meridian it is the length of the arc between them, R * |lat2 - lat1| * pi/180,
\* which in the model's unit of latitude is |lat2 - lat1|.
calculateDistance(lat1, lon1, lat2, lon2) ==
    IF lat2 >= lat1 THEN lat2 - lat1 ELSE lat1 - lat2

\* Mutant of isInside: the boundary of the circle is outside.
isInside_Strict(geofence, latitude, longitude) ==
    calculateDistance(latitude, longitude, geofence.centerLatitude,
                      geofence.centerLongitude) < geofence.radius

isInside(geofence, latitude, longitude) ==
    calculateDistance(latitude, longitude, geofence.centerLatitude,
                      geofence.centerLongitude) <= geofence.radius

\* Mutant of raisesEnterAlert: inactive geofences are evaluated too.
raisesEnterAlert_Inactive(geofence, latitude, longitude) ==
    isInside(geofence, latitude, longitude) /\ geofence.alertOnEnter

\* The test of checkGeofencing's loop body: the geofence is active, the point
\* is inside it and the geofence alerts on entering.
raisesEnterAlert(geofence, latitude, longitude) ==
    /\ geofence.isActive
    /\ isInside(geofence, latitude, longitude)
    /\ geofence.alertOnEnter

\* Mutant of enteredGeofences: a geofence that has an alert gets no further one.
enteredGeofences_Once(gs, d, latitude, longitude) ==
    LET ids == [i \in 1..geoCount |-> i]
    IN  SelectSeq(ids, LAMBDA i :
            /\ \E g \in getGeofencesByDevice(gs, d) :
                  g.id = i /\ raisesEnterAlert(g, latitude, longitude)
            /\ \A k \in 1..Len(alerts) : alerts[k].geofenceId # i)

\* The geofences of the device that checkGeofencing alerts for, in the order of
\* their creation.
enteredGeofences(gs, d, latitude, longitude) ==
    LET ids == [i \in 1..geoCount |-> i]
    IN  SelectSeq(ids, LAMBDA i :
            \E g \in getGeofencesByDevice(gs, d) :
                g.id = i /\ raisesEnterAlert(g, latitude, longitude))

\* storage.createGeofenceAlert
createGeofenceAlert(d, gid, latitude, longitude) ==
    [deviceId |-> d, geofenceId |-> gid, alertType |-> "enter",
     latitude |-> latitude, longitude |-> longitude]

\* storage.addDeviceLocation
addDeviceLocation(locs, d, latitude, longitude) ==
    Append(locs, [deviceId |-> d, latitude |-> latitude, longitude |-> longitude])

\* Mutant of checkGeofencing: the alert of an entered geofence that alerts on
\* leaving is an exit alert.
checkGeofencing_WithExit(d, latitude, longitude) ==
    LET entered == enteredGeofences(geofences, d, latitude, longitude)
        alertOnExit(gid) == \E g \in geofences : g.id = gid /\ g.alertOnExit
    IN  /\ Len(alerts) + Len(entered) <= MaxAlerts
        /\ alerts' = alerts \o [k \in 1..Len(entered) |->
                                   [createGeofenceAlert(d, entered[k], latitude,
                                                        longitude)
                                    EXCEPT !.alertType =
                                        IF alertOnExit(entered[k])
                                        THEN "exit" ELSE "enter"]]
        /\ logs' = logs \o [k \in 1..Len(entered) |->
                               [deviceId |-> d, category |-> "geofence"]]

\* checkGeofencing: one alert and one log entry for each entered geofence.
checkGeofencing(d, latitude, longitude) ==
    LET entered == enteredGeofences(geofences, d, latitude, longitude)
    IN  /\ Len(alerts) + Len(entered) <= MaxAlerts
        /\ alerts' = alerts \o [k \in 1..Len(entered) |->
                                   createGeofenceAlert(d, entered[k], latitude,
                                                       longitude)]
        /\ logs' = logs \o [k \in 1..Len(entered) |->
                               [deviceId |-> d, category |-> "geofence"]]

Location(d, latitude, longitude) ==
    IF d \notin Registered
    THEN Reply(404, DeviceNotFound) /\ UNCHANGED store
    ELSE /\ Len(locations) < MaxLocations
         /\ locations' = addDeviceLocation(locations, d, latitude, longitude)
         /\ checkGeofencing(d, latitude, longitude)
         /\ UNCHANGED <<commands, configs, geofences, geoCount, inflight>>
         /\ Reply(201, locations'[Len(locations')])

\* ------------------------------------------------------------ store failures
\* A handler in which one call of the store throws.  The calls before it have
\* taken effect; the handler's catch block, or the try/catch of the helper the
\* call is in, decides the answer.
InternalError == Error("Internal server error")

\* The store calls of the Create handler that write.
CreateWrites == {"createDeviceCommand", "createDeviceConfiguration", "addSystemLog"}

\* Mutant of CreateFailing: the writes of a failed request are rolled back.
CreateFailing_RolledBack(d, body, point) ==
    /\ d \in Registered
    /\ body.commandType # Absent
    /\ body.commandType = "update_config" \/ existingCommand(commands, d, body.commandType) = 0
    /\ point = "createDeviceConfiguration" => writesConfiguration(body)
    /\ UNCHANGED store
    /\ Reply(500, InternalError)

\* POST /api/devices/:deviceId/commands where the store call `point` throws: the
\* request passed the device lookup, the parse and the dedup check.
CreateFailing(d, body, point) ==
    LET t == body.commandType
        kept == IF t = "update_config"
                THEN cancelExistingConfigCommands(commands, d)
                ELSE commands
        created == createDeviceCommand(kept, d, t, body.commandData, body.status)
    IN  /\ d \in Registered
        /\ t # Absent
        /\ t = "update_config" \/ existingCommand(commands, d, t) = 0
        /\ point = "createDeviceConfiguration" => writesConfiguration(body)
        /\ Len(commands) < MaxCmds
        /\ commands' = IF point = "createDeviceCommand" THEN kept ELSE created
        /\ writesConfiguration(body) /\ point = "addSystemLog"
              => Len(configs) < MaxCfgs
        /\ configs' = IF writesConfiguration(body) /\ point = "addSystemLog"
                      THEN createDeviceConfiguration(configs, d, body.commandData,
                                                     "pending")
                      ELSE configs
        /\ UNCHANGED <<logs, geofences, geoCount, locations, alerts, inflight>>
        /\ Reply(500, InternalError)

\* The store calls of the geofence create handler that write.
GeofenceCreateWrites == {"createGeofence", "createDeviceCommand", "addSystemLog"}

\* POST /api/devices/:deviceId/geofences where the store call `point` throws:
\* a failure of createGeofence reaches the handler's catch block, a failure
\* inside enableGeofenceMonitoring is caught there and only logged to the
\* console.
GeofenceCreateFailing(d, body, point) ==
    LET geofence == [id |-> geoCount + 1, deviceId |-> d,
                     isActive |-> body.isActive,
                     alertOnEnter |-> body.alertOnEnter,
                     alertOnExit |-> body.alertOnExit,
                     centerLatitude |-> body.centerLatitude,
                     centerLongitude |-> body.centerLongitude,
                     radius |-> body.radius]
    IN  /\ d \in Registered
        /\ body.name # Absent
        /\ IF point = "createGeofence"
           THEN Reply(500, InternalError) /\ UNCHANGED store
           ELSE /\ geoCount < MaxGeofences
                /\ Len(commands) < MaxCmds
                /\ geofences' = geofences \cup {geofence}
                /\ geoCount' = geoCount + 1
                /\ commands' = IF point = "createDeviceCommand"
                               THEN commands
                               ELSE enableGeofenceMonitoring(commands, d)
                /\ UNCHANGED <<configs, logs, locations, alerts, inflight>>
                /\ Reply(201, geofence)

\* The store calls of the geofence delete handler that write.
GeofenceDeleteWrites == {"deleteGeofence", "createDeviceCommand", "addSystemLog"}

\* DELETE /api/devices/:deviceId/geofences/:geofenceId where the store call
\* `point` throws: a failure of deleteGeofence reaches the handler's catch
\* block, a failure inside disableGeofenceMonitoring is caught there.
GeofenceDeleteFailing(d, gid, point) ==
    LET left == {g \in geofences : g.id # gid}
    IN  /\ d \in Registered
        /\ \E g \in geofences : g.id = gid
        /\ IF point = "deleteGeofence"
           THEN Reply(500, InternalError) /\ UNCHANGED store
           ELSE /\ disablesMonitoring(left, d)
                /\ Len(commands) < MaxCmds
                /\ geofences' = left
                /\ commands' = IF point = "createDeviceCommand"
                               THEN commands
                               ELSE disableGeofenceMonitoring(commands, d)
                /\ UNCHANGED <<configs, logs, geoCount, locations, alerts, inflight>>
                /\ Reply(200, [success |-> TRUE])

\* POST /api/device/:deviceId/location where storage.addDeviceLocation throws:
\* the handler's catch block answers 400.
LocationStoreFails(d, latitude, longitude) ==
    /\ d \in Registered
    /\ UNCHANGED store
    /\ Reply(400, Error("Invalid location data"))

\* Mutant of LocationGeofencingFails: checkGeofencing lets the failure through
\* to the catch block of the handler.
LocationGeofencingFails_Propagated(d, latitude, longitude, done) ==
    LET entered == enteredGeofences(geofences, d, latitude, longitude)
    IN  /\ d \in Registered
        /\ Len(locations) < MaxLocations
        /\ done \in 0..(2 * Len(entered))
        /\ done < 2 * Len(entered) \/ done = 0
        /\ Len(alerts) + ((done + 1) \div 2) <= MaxAlerts
        /\ locations' = addDeviceLocation(locations, d, latitude, longitude)
        /\ alerts' = alerts \o [k \in 1..((done + 1) \div 2) |->
                                   createGeofenceAlert(d, entered[k], latitude,
                                                       longitude)]
        /\ logs' = logs \o [k \in 1..(done \div 2) |->
                               [deviceId |-> d, category |-> "geofence"]]
        /\ UNCHANGED <<commands, configs, geofences, geoCount, inflight>>
        /\ Reply(400, Error("Invalid location data"))

\* POST /api/device/:deviceId/location where a store call of checkGeofencing
\* throws after `done` of its writes (alert, log entry, alert, ...) have taken
\* effect; with done = 0 the failing call may be getGeofencesByDevice itself.
\* The try/catch of checkGeofencing ends the evaluation and the handler goes on.
\* Mutant of LocationGeofencingFails: a failing write is caught for its
\* geofence alone and the evaluation goes on with the next geofence.
LocationGeofencingFails_Continues(d, latitude, longitude, done) ==
    LET entered == enteredGeofences(geofences, d, latitude, longitude)
        failed == (done \div 2) + 1
        alerted == SelectSeq(entered, LAMBDA gid :
                       done % 2 = 1 \/ Len(entered) = 0 \/ gid # entered[failed])
        logged == SelectSeq(entered, LAMBDA gid :
                      Len(entered) = 0 \/ gid # entered[failed])
    IN  /\ d \in Registered
        /\ Len(locations) < MaxLocations
        /\ done \in 0..(2 * Len(entered))
        /\ done < 2 * Len(entered) \/ done = 0
        /\ Len(alerts) + Len(alerted) <= MaxAlerts
        /\ locations' = addDeviceLocation(locations, d, latitude, longitude)
        /\ alerts' = alerts \o [k \in 1..Len(alerted) |->
                                   createGeofenceAlert(d, alerted[k], latitude,
                                                       longitude)]
        /\ logs' = logs \o [k \in 1..Len(logged) |->
                               [deviceId |-> d, category |-> "geofence"]]
        /\ UNCHANGED <<commands, configs, geofences, geoCount, inflight>>
        /\ Reply(201, locations'[Len(locations')])

LocationGeofencingFails(d, latitude, longitude, done) ==
    LET entered == enteredGeofences(geofences, d, latitude, longitude)
    IN  /\ d \in Registered
        /\ Len(locations) < MaxLocations
        /\ done \in 0..(2 * Len(entered))
        /\ done < 2 * Len(entered) \/ done = 0
        /\ Len(alerts) + ((done + 1) \div 2) <= MaxAlerts
        /\ locations' = addDeviceLocation(locations, d, latitude, longitude)
        /\ alerts' = alerts \o [k \in 1..((done + 1) \div 2) |->
                                   createGeofenceAlert(d, entered[k], latitude,
                                                       longitude)]
        /\ logs' = logs \o [k \in 1..(done \div 2) |->
                               [deviceId |-> d, category |-> "geofence"]]
        /\ UNCHANGED <<commands, configs, geofences, geoCount, inflight>>
        /\ Reply(201, locations'[Len(locations')])

\* ---------------------------------------------------------- calculateDistance
\* The haversine formula of calculateDistance in truncating fixed-point
\* arithmetic that stays below 2^31: coordinates are whole degrees, angles are
\* in microradians, sines and cosines in millionths, and the trigonometric
\* functions are their Taylor polynomials.  On the coordinates of the model
\* (|latitude| <= 1, |longitude| <= 2 degrees) the truncations add up to less
\* than 0.2 % of the distance.
Abs(x) == IF x >= 0 THEN x ELSE -x

\* Mutant of toRadians: the angle is taken for gradians (pi / 200).
toRadians_Gradians(degrees) == degrees * 15708

\* degrees * Math.PI / 180, in microradians
toRadians(degrees) == degrees * 17453

\* Math.sin(x) for 0 <= x, x in microradians, result in millionths
Sin(x) == x - ((((x * x) \div 1000000) * x) \div 1000000) \div 6

\* Math.cos(x) for 0 <= x, x in microradians, result in millionths
Cos(x) == 1000000 - (x * x) \div 2000000

\* Math.sqrt(n) rounded down
RECURSIVE SqrtBetween(_, _, _)
SqrtBetween(n, lo, hi) ==
    IF lo = hi THEN lo
    ELSE LET mid == (lo + hi + 1) \div 2
         IN  IF mid * mid <= n THEN SqrtBetween(n, mid, hi)
             ELSE SqrtBetween(n, lo, mid - 1)
Sqrt(n) == SqrtBetween(n, 0, 46340)

\* Math.atan2(y, x) for 0 <= y < x: y in millionths, x in ten-thousandths,
\* result in microradians
Atan2(y, x) ==
    LET t == (y * 10000) \div x
    IN  t - ((((t * t) \div 1000000) * t) \div 1000000) \div 3

\* calculateDistance(lat1, lon1, lat2, lon2) in metres.  sin^2 is even, so the
\* half differences are taken without their sign; `a` is in hundred-millionths.
haversine(lat1, lon1, lat2, lon2) ==
    LET dLat == toRadians(Abs(lat2 - lat1))
        dLon == toRadians(Abs(lon2 - lon1))
        sinLat == Sin(dLat \div 2)
        sinLon == Sin(dLon \div 2)
        cosines == ((Cos(toRadians(Abs(lat1))) \div 1000)
                    * (Cos(toRadians(Abs(lat2))) \div 1000)) \div 1000
        a == (sinLat * sinLat) \div 10000
             + (cosines * ((sinLon * sinLon) \div 10000)) \div 1000
        c == 2 * Atan2(Sqrt(a * 10000), Sqrt(100000000 - a))
    IN  (6371 * c) \div 1000

\* The arguments of a call: whole degrees around (0, 0).
Points == {<<lat, lon>> : lat \in -1..1, lon \in -2..2}

\* A call of calculateDistance: `last` holds the arguments before the call and
\* the arguments with the result after it.
InitDistance ==
    /\ commands = <<>>
    /\ configs = <<>>
    /\ logs = <<>>
    /\ geofences = {}
    /\ geoCount = 0
    /\ locations = <<>>
    /\ alerts = <<>>
    /\ inflight = [r \in Requests |-> Idle]
    /\ \E p \in Points, q \in Points :
          last = [code |-> 0, body |-> [from |-> p, to |-> q]]

Measure ==
    /\ last.code = 0
    /\ UNCHANGED store
    /\ Reply(200, [from |-> last.body.from, to |-> last.body.to,
                   distance |-> haversine(last.body.from[1], last.body.from[2],
                                          last.body.to[1], last.body.to[2])])

NextDistance == Measure

SpecDistance == InitDistance /\ [][NextDistance]_vars

\* ------------------------------------------------------- concurrent requests
\* The Create handler as two steps of a request slot.  Every await of the
\* handler lets other requests run; the steps here are cut at the await that
\* follows the read of the pending commands (routes.ts:495 and 508): CreateBegin
\* runs the handler up to and including the checks on what it read, CreateFinish
\* runs the writes.  Interleavings inside the writes are not modelled, so the
\* reachable states of the model are a subset of those of the handler.
Running(r, d, body, read) ==
    [pc |-> "write", deviceId |-> d, body |-> body, read |-> read, code |-> 0]
Done(request, code) == [request EXCEPT !.pc = "done", !.code = code]

CreateBegin(r, d, body) ==
    LET t == body.commandType
        pending == getPendingCommandsByDevice(commands, d)
        existing == existingCommand(commands, d, t)
        started == Running(r, d, body, {})
    IN  /\ inflight[r].pc = "idle"
        /\ UNCHANGED <<commands, configs, logs, geofences, geoCount, locations,
                       alerts>>
        /\ IF d \notin Registered
           THEN /\ inflight' = [inflight EXCEPT ![r] = Done(started, 404)]
                /\ Reply(404, DeviceNotFound)
           ELSE IF t = Absent
           THEN /\ inflight' = [inflight EXCEPT ![r] = Done(started, 400)]
                /\ Reply(400, Error("Invalid command data"))
           ELSE IF t # "update_config" /\ existing # 0
           THEN /\ inflight' = [inflight EXCEPT ![r] = Done(started, 400)]
                /\ Reply(400, [error |-> "command already pending for this device",
                               existingCommandId |-> pending[existing].id])
           ELSE /\ inflight' =
                       [inflight EXCEPT ![r] =
                           Running(r, d, body,
                                   IF t = "update_config"
                                   THEN {pending[i].id : i \in
                                            {j \in 1..Len(pending) :
                                                pending[j].commandType = t}}
                                   ELSE {})]
                /\ UNCHANGED last

\* updateCommandStatus(id, "cancelled") for each of the ids
cancelCommands(cmds, ids) ==
    [i \in 1..Len(cmds) |->
        IF cmds[i].id \in ids THEN [cmds[i] EXCEPT !.status = "cancelled"]
        ELSE cmds[i]]

\* Mutant of CreateFinish: the dedup check is made again, together with the
\* write.
CreateFinish_Rechecked(r) ==
    LET request == inflight[r]
        d == request.deviceId
        body == request.body
        pending == getPendingCommandsByDevice(commands, d)
        existing == existingCommand(commands, d, body.commandType)
        created == createDeviceCommand(cancelCommands(commands, request.read), d,
                                       body.commandType, body.commandData,
                                       body.status)
    IN  /\ request.pc = "write"
        /\ IF body.commandType # "update_config" /\ existing # 0
           THEN /\ inflight' = [inflight EXCEPT ![r] = Done(request, 400)]
                /\ UNCHANGED <<commands, configs, logs, geofences, geoCount,
                               locations, alerts>>
                /\ Reply(400, [error |-> "command already pending for this device",
                               existingCommandId |-> pending[existing].id])
           ELSE /\ Len(commands) < MaxCmds
                /\ Len(logs) < MaxLogs
                /\ writesConfiguration(body) => Len(configs) < MaxCfgs
                /\ commands' = created
                /\ configs' = IF writesConfiguration(body)
                              THEN createDeviceConfiguration(
                                       configs, d, body.commandData, "pending")
                              ELSE configs
                /\ logs' = addSystemLog(logs, d, "command")
                /\ inflight' = [inflight EXCEPT ![r] = Done(request, 201)]
                /\ UNCHANGED <<geofences, geoCount, locations, alerts>>
                /\ Reply(201, created[Len(created)])

\* Mutant of CreateFinish: the pending update_config commands are read again
\* when the writes are made.
CreateFinish_Reread(r) ==
    LET request == inflight[r]
        d == request.deviceId
        body == request.body
        kept == IF body.commandType = "update_config"
                THEN cancelExistingConfigCommands(commands, d)
                ELSE commands
        created == createDeviceCommand(kept, d, body.commandType, body.commandData,
                                       body.status)
    IN  /\ request.pc = "write"
        /\ Len(commands) < MaxCmds
        /\ Len(logs) < MaxLogs
        /\ writesConfiguration(body) => Len(configs) < MaxCfgs
        /\ commands' = created
        /\ configs' = IF writesConfiguration(body)
                      THEN createDeviceConfiguration(
                               configs, d, body.commandData, "pending")
                      ELSE configs
        /\ logs' = addSystemLog(logs, d, "command")
        /\ inflight' = [inflight EXCEPT ![r] = Done(request, 201)]
        /\ UNCHANGED <<geofences, geoCount, locations, alerts>>
        /\ Reply(201, created[Len(created)])

CreateFinish(r) ==
    LET request == inflight[r]
        d == request.deviceId
        body == request.body
        created == createDeviceCommand(cancelCommands(commands, request.read), d,
                                       body.commandType, body.commandData,
                                       body.status)
    IN  /\ request.pc = "write"
        /\ Len(commands) < MaxCmds
        /\ Len(logs) < MaxLogs
        /\ writesConfiguration(body) => Len(configs) < MaxCfgs
        /\ commands' = created
        /\ configs' = IF writesConfiguration(body)
                      THEN createDeviceConfiguration(
                               configs, d, body.commandData, "pending")
                      ELSE configs
        /\ logs' = addSystemLog(logs, d, "command")
        /\ inflight' = [inflight EXCEPT ![r] = Done(request, 201)]
        /\ UNCHANGED <<geofences, geoCount, locations, alerts>>
        /\ Reply(201, created[Len(created)])

\* ----------------------------------------------- concurrent lost-mode requests
\* The lost-mode handler cut at the await after its read of the pending
\* commands: LostModeBegin runs the lookup and the conflict check, LostModeFinish
\* the cancellation of the command it found and the writes.
Toggling(d, lostMode, read) ==
    [pc |-> "toggle", deviceId |-> d, body |-> [lostMode |-> lostMode],
     read |-> read, code |-> 0]

LostModeBegin(r, d, lostMode) ==
    LET want == IF lostMode THEN "enable_lost_mode" ELSE "disable_lost_mode"
        pending == getPendingCommandsByDevice(commands, d)
        existing == existingLostModeCommand(commands, d)
        started == Toggling(d, lostMode, {})
    IN  /\ inflight[r].pc = "idle"
        /\ UNCHANGED <<commands, configs, logs, geofences, geoCount, locations,
                       alerts>>
        /\ IF d \notin Registered
           THEN /\ inflight' = [inflight EXCEPT ![r] = Done(started, 404)]
                /\ Reply(404, DeviceNotFound)
           ELSE IF existing # 0 /\ pending[existing].commandType = want
           THEN /\ inflight' = [inflight EXCEPT ![r] = Done(started, 400)]
                /\ Reply(400, [error |-> IF lostMode
                                         THEN "Lost mode command already pending"
                                         ELSE "Lost mode disable command already pending",
                               canCancel |-> TRUE,
                               commandId |-> pending[existing].id])
           ELSE /\ inflight' =
                       [inflight EXCEPT ![r] =
                           Toggling(d, lostMode,
                                    IF existing # 0 THEN {pending[existing].id}
                                    ELSE {})]
                /\ UNCHANGED last

\* Mutant of LostModeFinish: the pending lost-mode command is looked up again
\* when the writes are made.
LostModeFinish_Reread(r) ==
    LET request == inflight[r]
        d == request.deviceId
        want == IF request.body.lostMode THEN "enable_lost_mode"
                ELSE "disable_lost_mode"
        pending == getPendingCommandsByDevice(commands, d)
        existing == existingLostModeCommand(commands, d)
        kept == IF existing # 0
                THEN updateCommandStatus(commands, pending[existing].id, "cancelled")
                ELSE commands
        created == createDeviceCommand(kept, d, want, Absent, "pending")
    IN  /\ request.pc = "toggle"
        /\ Len(commands) < MaxCmds
        /\ Len(logs) < MaxLogs
        /\ commands' = created
        /\ logs' = addSystemLog(logs, d, "command")
        /\ inflight' = [inflight EXCEPT ![r] = Done(request, 200)]
        /\ UNCHANGED <<configs, geofences, geoCount, locations, alerts>>
        /\ Reply(200, [success |-> TRUE,
                       commandId |-> created[Len(created)].id,
                       status |-> "pending"])

LostModeFinish(r) ==
    LET request == inflight[r]
        d == request.deviceId
        want == IF request.body.lostMode THEN "enable_lost_mode"
                ELSE "disable_lost_mode"
        created == createDeviceCommand(cancelCommands(commands, request.read), d,
                                       want, Absent, "pending")
    IN  /\ request.pc = "toggle"
        /\ Len(commands) < MaxCmds
        /\ Len(logs) < MaxLogs
        /\ commands' = created
        /\ logs' = addSystemLog(logs, d, "command")
        /\ inflight' = [inflight EXCEPT ![r] = Done(request, 200)]
        /\ UNCHANGED <<configs, geofences, geoCount, locations, alerts>>
        /\ Reply(200, [success |-> TRUE,
                       commandId |-> created[Len(created)].id,
                       status |-> "pending"])

\* ------------------------------------------------------------ specification
Next ==
    \/ \E d \in OneDevice, body \in CreateBodies : Create(d, body)
    \/ \E d \in OneDevice, lostMode \in BOOLEAN : LostMode(d, lostMode)
    \/ \E d \in OneDevice, id \in Ids : Cancel(d, id)
    \/ \E d \in OneDevice, id \in Ids, st \in AckStatuses : Ack(d, id, st)
    \/ \E d \in OneDevice, id \in Ids, st \in DeviceAckStatuses : DeviceAck(d, id, st)
    \/ \E d \in OneDevice : Heartbeat(d)
    \/ \E d \in OneDevice : ListPending(d)
    \/ \E d \in OneDevice, body \in GeofenceBodies : GeofenceCreate(d, body)
    \/ \E d \in OneDevice, gid \in 1..MaxGeofences : GeofenceDelete(d, gid)

Spec == Init /\ [][Next]_vars

\* Two registered devices sharing the store, with the requests that read or
\* change a command or a configuration by id.
TwoDeviceBodies ==
    {[commandType |-> "enable_lost_mode", commandData |-> Absent, status |-> Absent]}
    \cup {[commandType |-> "update_config", commandData |-> p, status |-> Absent] :
            p \in {"cfgA", "cfgB"}}

NextTwoDevices ==
    \/ \E d \in Registered, body \in TwoDeviceBodies : Create(d, body)
    \/ \E d \in Registered, lostMode \in BOOLEAN : LostMode(d, lostMode)
    \/ \E d \in Registered, id \in Ids : Cancel(d, id)
    \/ \E d \in Registered, id \in Ids : Ack(d, id, "executed")
    \/ \E d \in Registered : Heartbeat(d)
    \/ \E d \in Registered : ListPending(d)

SpecTwoDevices == Init /\ [][NextTwoDevices]_vars

\* A registered and an unregistered device id: every request, with either id.
EitherDevice == {"d1", "dx"}
Unregistered == DeviceIds \ Registered

NextUnregistered ==
    \/ \E d \in EitherDevice, body \in TwoDeviceBodies : Create(d, body)
    \/ \E d \in EitherDevice, lostMode \in BOOLEAN : LostMode(d, lostMode)
    \/ \E d \in EitherDevice, id \in Ids : Cancel(d, id)
    \/ \E d \in EitherDevice, id \in Ids : Ack(d, id, "executed")
    \/ \E d \in EitherDevice, id \in Ids : DeviceAck(d, id, Absent)
    \/ \E d \in EitherDevice : Heartbeat(d)
    \/ \E d \in EitherDevice : ListPending(d)
    \/ \E d \in EitherDevice : Location(d, 0, 0)
    \/ \E d \in EitherDevice : GeofenceCreate(d, GeofenceBody("home", TRUE, TRUE, 0, 1))
    \/ \E d \in EitherDevice, gid \in 1..MaxGeofences : GeofenceDelete(d, gid)

SpecUnregistered == Init /\ [][NextUnregistered]_vars

\* Geofences of two radii around latitude 0, active or not, alerting on entering
\* or not, and location reports at the centre, inside, on the boundaries and
\* outside, for two registered devices.
Radii == {1, 2}
Latitudes == 0..3
FenceBodies ==
    {GeofenceBody("home", a, e, 0, r) : a \in BOOLEAN, e \in BOOLEAN, r \in Radii}

NextGeofencing ==
    \/ \E d \in Registered, body \in FenceBodies : GeofenceCreate(d, body)
    \/ \E d \in Registered, gid \in 1..MaxGeofences : GeofenceDelete(d, gid)
    \/ \E d \in Registered, latitude \in Latitudes : Location(d, latitude, 0)

SpecGeofencing == Init /\ [][NextGeofencing]_vars

\* One device whose Create requests may meet a failing store call.
NextCreateFailures ==
    \/ \E d \in OneDevice, body \in TwoDeviceBodies : Create(d, body)
    \/ \E d \in OneDevice, body \in TwoDeviceBodies, point \in CreateWrites :
          CreateFailing(d, body, point)

SpecCreateFailures == Init /\ [][NextCreateFailures]_vars

\* One device whose geofence and location requests may meet a failing store
\* call: geofences around latitude 0 and reports inside and outside them.
FailureBodies == {GeofenceBody("home", TRUE, TRUE, 0, 1)}
FailureLatitudes == {0, 3}
FailurePoints == 0..(2 * MaxGeofences - 1)

NextGeofenceFailures ==
    \/ \E d \in OneDevice, body \in FailureBodies : GeofenceCreate(d, body)
    \/ \E d \in OneDevice, body \in FailureBodies, point \in GeofenceCreateWrites :
          GeofenceCreateFailing(d, body, point)
    \/ \E d \in OneDevice, gid \in 1..MaxGeofences : GeofenceDelete(d, gid)
    \/ \E d \in OneDevice, gid \in 1..MaxGeofences, point \in GeofenceDeleteWrites :
          GeofenceDeleteFailing(d, gid, point)
    \/ \E d \in OneDevice, latitude \in FailureLatitudes : Location(d, latitude, 0)
    \/ \E d \in OneDevice, latitude \in FailureLatitudes :
          LocationStoreFails(d, latitude, 0)
    \/ \E d \in OneDevice, latitude \in FailureLatitudes, done \in FailurePoints :
          LocationGeofencingFails(d, latitude, 0, done)

SpecGeofenceFailures == Init /\ [][NextGeofenceFailures]_vars

\* Two Create requests that run concurrently, for a registered device.
ConcurrentBodies ==
    {[commandType |-> t, commandData |-> Absent, status |-> Absent] :
        t \in {"enable_lost_mode", "disable_lost_mode", "reboot"}}
    \cup {[commandType |-> "update_config", commandData |-> p, status |-> Absent] :
            p \in {"cfgA", "cfgB"}}

NextConcurrent ==
    \/ \E r \in Requests, d \in OneDevice, body \in ConcurrentBodies :
          CreateBegin(r, d, body)
    \/ \E r \in Requests : CreateFinish(r)
    \/ \E r \in Requests, d \in OneDevice, lostMode \in BOOLEAN :
          LostModeBegin(r, d, lostMode)
    \/ \E r \in Requests : LostModeFinish(r)

SpecConcurrent == Init /\ [][NextConcurrent]_vars

\* ------------------------------------------------- the device's delivery loop
\* A device that polls GET /api/device/:deviceId/commands, keeps the ids of the
\* answer and acknowledges each of them as executed with
\* POST /api/devices/:deviceId/commands/:commandId/ack before it polls again.
DeviceSession == 1
Polled(d, ids) ==
    [pc |-> "polled", deviceId |-> d, body |-> [none |-> TRUE], read |-> ids,
     code |-> 0]

DevicePoll(r, d) ==
    /\ inflight[r] = Idle
    /\ d \in Registered
    /\ LET items == allCommands(commands, configs, d)
           ids == {items[k].id : k \in 1..Len(items)}
       IN  /\ inflight' = [inflight EXCEPT ![r] = IF ids = {} THEN Idle
                                                   ELSE Polled(d, ids)]
           /\ Reply(200, [commands |-> items])
    /\ UNCHANGED <<commands, configs, logs, geofences, geoCount, locations, alerts>>

\* Mutant of DeviceAcknowledge: no fallback to the configurations.
DeviceAcknowledge_NoFallback(r) ==
    /\ inflight[r].pc = "polled"
    /\ \E id \in inflight[r].read :
          /\ inflight' = [inflight EXCEPT ![r] =
                            IF inflight[r].read = {id} THEN Idle
                            ELSE Polled(inflight[r].deviceId, inflight[r].read \ {id})]
          /\ IF commandExists(commands, id)
             THEN /\ commands' = updateCommandStatus(commands, id, "executed")
                  /\ Reply(200, [success |-> TRUE])
             ELSE /\ commands' = commands
                  /\ Reply(404, Error("Command or configuration not found"))
          /\ UNCHANGED <<configs, logs, geofences, geoCount, locations, alerts>>

DeviceAcknowledge(r) ==
    /\ inflight[r].pc = "polled"
    /\ \E id \in inflight[r].read :
          /\ inflight' = [inflight EXCEPT ![r] =
                            IF inflight[r].read = {id} THEN Idle
                            ELSE Polled(inflight[r].deviceId, inflight[r].read \ {id})]
          /\ IF commandExists(commands, id)
             THEN /\ commands' = updateCommandStatus(commands, id, "executed")
                  /\ configs' = configs
                  /\ Reply(200, [success |-> TRUE])
             ELSE IF configExists(configs, id)
             THEN /\ configs' = updateConfigurationStatus(
                                    configs, id, configurationStatusFor("executed"))
                  /\ commands' = commands
                  /\ Reply(200, [success |-> TRUE])
             ELSE /\ UNCHANGED <<commands, configs>>
                  /\ Reply(404, Error("Command or configuration not found"))
          /\ UNCHANGED <<logs, geofences, geoCount, locations, alerts>>

\* One device running the delivery loop while commands are created and
\* cancelled on the user's side; the loop's steps are taken again and again.
NextDelivery ==
    \/ \E d \in OneDevice, body \in TwoDeviceBodies : Create(d, body)
    \/ \E d \in OneDevice, id \in CmdIds : Cancel(d, id)
    \/ \E d \in OneDevice : DevicePoll(DeviceSession, d)
    \/ DeviceAcknowledge(DeviceSession)

SpecDelivery ==
    /\ Init
    /\ [][NextDelivery]_vars
    /\ \A d \in OneDevice : WF_vars(DevicePoll(DeviceSession, d))
    /\ WF_vars(DeviceAcknowledge(DeviceSession))

\* One device whose update_config requests carry a payload, with and without a
\* status in the body, next to the requests that deliver, acknowledge and
\* cancel the resulting items.
ConfigBodies ==
    {[commandType |-> "update_config", commandData |-> "cfgA", status |-> st] :
        st \in {Absent, "executed"}}

NextConfigDelivery ==
    \/ \E d \in OneDevice, body \in ConfigBodies : Create(d, body)
    \/ \E d \in OneDevice, id \in Ids : Cancel(d, id)
    \/ \E d \in OneDevice, id \in Ids : Ack(d, id, "executed")
    \/ \E d \in OneDevice : ListPending(d)

SpecConfigDelivery == Init /\ [][NextConfigDelivery]_vars

\* ================================================================ properties
\* Positions of the device's commands of a type that are in one of the statuses.
CommandsIn(cmds, d, t, statuses) ==
    {i \in 1..Len(cmds) : /\ cmds[i].deviceId = d
                          /\ cmds[i].commandType = t
                          /\ cmds[i].status \in statuses}
PendingIn(cmds, d, t) == CommandsIn(cmds, d, t, {"pending"})

\* Positions of the device's pending configuration rows.
PendingConfigsIn(cfgs, d) ==
    {j \in 1..Len(cfgs) : cfgs[j].deviceId = d /\ cfgs[j].status = "pending"}

\* The shapes of the responses.
CreateConflict(r) == r.code = 400 /\ "existingCommandId" \in DOMAIN r.body
LostModeConflict(r) == r.code = 400 /\ "canCancel" \in DOMAIN r.body
CommandList(r) == r.code = 200 /\ DOMAIN r.body = {"commands"}
HeartbeatReply(r) == r.code = 200 /\ DOMAIN r.body = {"success", "commands"}

\* The non-config command types a Create request of the model can carry.
DedupTypes == {"enable_lost_mode", "disable_lost_mode"}

\* C1: every device has at most one pending command of each command type other
\* than update_config.
C1_OnePendingPerType ==
    \A d \in Registered, t \in CommandType \ {"update_config"} :
        Cardinality(PendingIn(commands, d, t)) <= 1

\* C2 as stated: a Create of a type other than update_config is rejected with
\* Conflict, and changes nothing, whenever the device has a command of that type
\* that is pending, sent or acknowledged.
C2_ConflictOnUnexecuted ==
    [][\A d \in OneDevice, body \in CreateBodies :
          (/\ body.commandType \in DedupTypes
           /\ CommandsIn(commands, d, body.commandType,
                         {"pending", "sent", "acknowledged"}) # {}
           /\ Create(d, body))
          => (CreateConflict(last') /\ UNCHANGED store)]_vars

\* C2 amended: a Create of a type other than update_config on a registered
\* device is rejected with Conflict, and changes nothing, exactly when the
\* device has a pending command of that type; otherwise it creates the command.
C2_ConflictOnPending ==
    [][\A d \in OneDevice, body \in CreateBodies :
          (body.commandType \in DedupTypes /\ Create(d, body))
          => IF PendingIn(commands, d, body.commandType) # {}
             THEN CreateConflict(last') /\ UNCHANGED store
             ELSE last'.code = 201 /\ Len(commands') = Len(commands) + 1]_vars

\* C2 witness: a Create was rejected because of a pending command while another
\* command of the device is acknowledged.
C2_Witness ==
    /\ CreateConflict(last)
    /\ commands[last.body.existingCommandId].status = "pending"
    /\ \E i \in 1..Len(commands) : commands[i].status = "acknowledged"

\* C3: a second update_config Create while one is pending cancels the first and
\* leaves exactly one pending update_config command and exactly one pending
\* configuration row, which carries the second request's payload.
C3_SecondUpdateConfig ==
    [][\A d \in OneDevice, body \in CreateBodies :
          (/\ body.commandType = "update_config"
           /\ PendingIn(commands, d, "update_config") # {}
           /\ Create(d, body))
          => /\ \A i \in PendingIn(commands, d, "update_config") :
                    commands'[i].status = "cancelled"
             /\ Cardinality(PendingIn(commands', d, "update_config")) = 1
             /\ Cardinality(PendingConfigsIn(configs', d)) = 1
             /\ \A j \in PendingConfigsIn(configs', d) :
                    configs'[j].configData = body.commandData]_vars

\* The lost-mode command type a request asks for, and the opposite one.
Wanted(lostMode) == IF lostMode THEN "enable_lost_mode" ELSE "disable_lost_mode"
Opposite(lostMode) == IF lostMode THEN "disable_lost_mode" ELSE "enable_lost_mode"

\* C4: a lost-mode request while the opposite command is pending and the
\* requested one is not cancels the opposite command and leaves exactly one
\* pending command of the requested type and none of the opposite type.
C4_ToggleCancelsOpposite ==
    [][\A d \in OneDevice, lostMode \in BOOLEAN :
          (/\ PendingIn(commands, d, Opposite(lostMode)) # {}
           /\ PendingIn(commands, d, Wanted(lostMode)) = {}
           /\ LostMode(d, lostMode))
          => /\ \E i \in PendingIn(commands, d, Opposite(lostMode)) :
                    commands'[i].status = "cancelled"
             /\ Cardinality(PendingIn(commands', d, Wanted(lostMode))) = 1
             /\ PendingIn(commands', d, Opposite(lostMode)) = {}]_vars

\* C5: a lost-mode request is rejected as a conflict, creating nothing, whenever
\* a command of the requested type is pending for the device.
C5_ToggleConflict ==
    [][\A d \in OneDevice, lostMode \in BOOLEAN :
          (/\ PendingIn(commands, d, Wanted(lostMode)) # {}
           /\ LostMode(d, lostMode))
          => (LostModeConflict(last') /\ UNCHANGED store)]_vars

\* C6: no device has a pending enable_lost_mode and a pending disable_lost_mode
\* at the same time.
C6_LostModeExclusive ==
    \A d \in Registered :
        ~(/\ PendingIn(commands, d, "enable_lost_mode") # {}
          /\ PendingIn(commands, d, "disable_lost_mode") # {})

\* The merged view of a device: its pending commands and its pending
\* configurations in the shape of commands.
PendingCommandPositions(d) ==
    {i \in 1..Len(commands) : commands[i].deviceId = d /\ commands[i].status = "pending"}
Projection(config) ==
    [id |-> config.id, deviceId |-> config.deviceId, commandType |-> "update_config",
     commandData |-> config.configData, status |-> "pending"]
MergedView(d) ==
    {commands[i] : i \in PendingCommandPositions(d)}
    \cup {Projection(configs[j]) : j \in PendingConfigsIn(configs, d)}
Items(s) == {s[k] : k \in 1..Len(s)}

\* C7: for every registered device the poll endpoint answers with the device's
\* pending commands followed by one projection of each of its pending
\* configurations (same id, update_config, commandData = configData), once
\* each, and nothing else and nothing of the other device.
C7_ListPendingMerged ==
    [][\A d \in Registered :
          ListPending(d)
          => LET items == last'.body.commands
                 n == Cardinality(PendingCommandPositions(d))
             IN  /\ CommandList(last')
                 /\ Len(items) = n + Cardinality(PendingConfigsIn(configs, d))
                 /\ {items[k] : k \in 1..n}
                        = {commands[i] : i \in PendingCommandPositions(d)}
                 /\ {items[k] : k \in (n + 1)..Len(items)}
                        = {Projection(configs[j]) : j \in PendingConfigsIn(configs, d)}
                 /\ \A k \in 1..Len(items) :
                        items[k].deviceId = d /\ items[k].status = "pending"]_vars

\* C7 witness: a poll answered with a pending command and a projected pending
\* configuration while the other device has pending work too.
C7_Witness ==
    /\ CommandList(last)
    /\ \E k \in 1..Len(last.body.commands) : last.body.commands[k].id > 0
    /\ \E k \in 1..Len(last.body.commands) : last.body.commands[k].id < 0
    /\ \E d \in Registered :
          /\ \A k \in 1..Len(last.body.commands) : last.body.commands[k].deviceId # d
          /\ PendingCommandPositions(d) # {}
          /\ PendingConfigsIn(configs, d) # {}

\* C8: the commands of a heartbeat response are the items of the merged view.
C8_HeartbeatMerged ==
    [][\A d \in Registered :
          Heartbeat(d) => Items(last'.body.commands) = MergedView(d)]_vars

\* C9: an acknowledgement addressed to a registered device updates the command
\* with the id if there is one and leaves the configurations alone; otherwise
\* it updates the configuration with the id, storing applied for executed, and
\* leaves the commands alone; otherwise it answers NotFound and changes nothing.
C9_AckFallback ==
    [][\A d \in OneDevice, id \in Ids, st \in AckStatuses :
          Ack(d, id, st)
          => IF \E i \in 1..Len(commands) : commands[i].id = id
             THEN /\ last'.code = 200
                  /\ Len(commands') = Len(commands)
                  /\ \A i \in 1..Len(commands) :
                        commands'[i] = IF commands[i].id = id
                                       THEN [commands[i] EXCEPT !.status = st]
                                       ELSE commands[i]
                  /\ configs' = configs
             ELSE IF \E j \in 1..Len(configs) : configs[j].id = id
             THEN /\ last'.code = 200
                  /\ commands' = commands
                  /\ Len(configs') = Len(configs)
                  /\ \A j \in 1..Len(configs) :
                        configs'[j] =
                            IF configs[j].id = id
                            THEN [configs[j] EXCEPT
                                    !.status = IF st = "executed" THEN "applied" ELSE st]
                            ELSE configs[j]
             ELSE last'.code = 404 /\ UNCHANGED store]_vars

\* C9 witness: an acknowledgement as executed fell back to a configuration row,
\* which is now applied, while a command is still pending.
C9_Witness ==
    /\ last = [code |-> 200, body |-> [success |-> TRUE]]
    /\ \E j \in 1..Len(configs) : configs[j].status = "applied"
    /\ \E i \in 1..Len(commands) : commands[i].status = "pending"

\* The transition relation of a command's status.
Transitions ==
    {<<"pending", "sent">>, <<"pending", "cancelled">>, <<"pending", "expired">>,
     <<"sent", "acknowledged">>, <<"sent", "failed">>,
     <<"acknowledged", "executed">>}

\* C10: every change of a command's status follows the transition relation.
C10_StatusTransitions ==
    [][\A i \in 1..Len(commands) :
          commands'[i].status # commands[i].status
          => <<commands[i].status, commands'[i].status>> \in Transitions]_vars

\* The terminal statuses of a command.
Terminal == {"executed", "failed", "expired", "cancelled"}

\* C11: a command in a terminal status is never pending after a step, so it is
\* in no later answer of the poll endpoint.
C11_TerminalStaysTerminal ==
    [][\A i \in 1..Len(commands) :
          commands[i].status \in Terminal => commands'[i].status # "pending"]_vars

\* C12: a Cancel of a command that is in a terminal status answers success and
\* leaves the status of the command as it was.
C12_CancelTerminalNoOp ==
    [][\A d \in OneDevice, id \in CmdIds :
          (/\ commandExists(commands, id)
           /\ commands[id].status \in Terminal
           /\ Cancel(d, id))
          => /\ last'.code = 200
             /\ commands'[id].status = commands[id].status]_vars

\* The response of a successful Cancel.
CancelSuccess(r) == r.code = 200 /\ "message" \in DOMAIN r.body

\* C13: a Cancel of a stored command, be it just created or cancelled before,
\* answers success, leaves the command cancelled and out of the merged pending
\* list of its device, and changes no other command.
C13_CancelRoundTrip ==
    [][\A d \in OneDevice, id \in CmdIds :
          (commandExists(commands, id) /\ Cancel(d, id))
          => /\ CancelSuccess(last')
             /\ Len(commands') = Len(commands)
             /\ commands'[id].status = "cancelled"
             /\ \A i \in 1..Len(commands) : i # id => commands'[i] = commands[i]
             /\ LET items == allCommands(commands', configs', commands[id].deviceId)
                IN  \A k \in 1..Len(items) : items[k].id # id]_vars

\* C13 witness: one command was created and then cancelled twice (one log entry
\* for the Create and one for each Cancel).
C13_Witness ==
    /\ CancelSuccess(last)
    /\ Len(commands) = 1
    /\ commands[1].status = "cancelled"
    /\ Len(logs) = 3
    /\ \A k \in 1..Len(logs) : logs[k].category = "command"

\* C14: a successful Create stores and returns a pending command, whatever the
\* request body carries, and appends exactly one log entry of the device.
C14_CreatedPending ==
    [][\A d \in OneDevice, body \in CreateBodies :
          (Create(d, body) /\ last'.code = 201)
          => /\ last'.body.status = "pending"
             /\ commands'[Len(commands')].status = "pending"
             /\ Len(logs') = Len(logs) + 1
             /\ logs'[Len(logs')].deviceId = d]_vars

\* The response of a rejected Create that carries no command type.
ValidationError(r) == r.code = 400 /\ r.body = Error("Invalid command data")

\* C15: a Create or a lost-mode request answered with a conflict or a validation
\* error leaves every command, configuration and log entry as it was.
C15_RejectionChangesNothing ==
    [][/\ \A d \in OneDevice, body \in CreateBodies :
             (Create(d, body) /\ last'.code = 400)
             => /\ CreateConflict(last') \/ ValidationError(last')
                /\ UNCHANGED <<commands, configs, logs>>
       /\ \A d \in OneDevice, lostMode \in BOOLEAN :
             (LostMode(d, lostMode) /\ last'.code = 400)
             => /\ LostModeConflict(last')
                /\ UNCHANGED <<commands, configs, logs>>]_vars

\* C15 witness: a lost-mode request was rejected as a conflict while the store
\* holds a pending command, a pending configuration and log entries.
C15_Witness ==
    /\ LostModeConflict(last)
    /\ commands[last.body.commandId].status = "pending"
    /\ configs # <<>>
    /\ logs # <<>>

\* C16: the id in a conflict answer of Create or of the lost-mode request is the
\* id of a stored command that is pending, belongs to the device of the request
\* and has the requested type.
C16_ConflictNamesPending ==
    [][/\ \A d \in Registered, body \in TwoDeviceBodies :
             (Create(d, body) /\ CreateConflict(last'))
             => LET id == last'.body.existingCommandId
                IN  /\ commandExists(commands', id)
                    /\ commands'[id].status = "pending"
                    /\ commands'[id].deviceId = d
                    /\ commands'[id].commandType = body.commandType
       /\ \A d \in Registered, lostMode \in BOOLEAN :
             (LostMode(d, lostMode) /\ LostModeConflict(last'))
             => LET id == last'.body.commandId
                IN  /\ commandExists(commands', id)
                    /\ commands'[id].status = "pending"
                    /\ commands'[id].deviceId = d
                    /\ commands'[id].commandType = Wanted(lostMode)]_vars

\* C16 witness: a conflict answer names a pending command of one device while
\* the other device has a pending command of the same type.
C16_Witness ==
    /\ CreateConflict(last) \/ LostModeConflict(last)
    /\ \E i, j \in 1..Len(commands) :
          /\ commands[i].deviceId # commands[j].deviceId
          /\ commands[i].commandType = commands[j].commandType
          /\ commands[i].status = "pending"
          /\ commands[j].status = "pending"
          /\ \/ CreateConflict(last) /\ last.body.existingCommandId = j
             \/ LostModeConflict(last) /\ last.body.commandId = j

\* The answer to a request that names something the store does not hold.
NotFound(r) == r.code = 404

\* C17: every request addressed to an unregistered device id is answered with
\* NotFound and changes no stored record.
C17_UnregisteredNotFound ==
    [][\A d \in Unregistered :
          \/ \E body \in TwoDeviceBodies : Create(d, body)
          \/ \E lostMode \in BOOLEAN : LostMode(d, lostMode)
          \/ \E id \in Ids : Cancel(d, id)
          \/ \E id \in Ids : Ack(d, id, "executed")
          \/ \E id \in Ids : DeviceAck(d, id, Absent)
          \/ Heartbeat(d)
          \/ Location(d, 0, 0)
          \/ GeofenceCreate(d, GeofenceBody("home", TRUE, TRUE, 0, 1))
          \/ \E gid \in 1..MaxGeofences : GeofenceDelete(d, gid)
          => (NotFound(last') /\ UNCHANGED store)]_vars

\* C18: the status of every configuration row is a configuration status.
C18_ConfigurationStatuses ==
    \A j \in 1..Len(configs) : configs[j].status \in ConfigurationStatus

\* The distance in metres between two latitudes of the meridian of the model.
Distance(a, b) == IF a >= b THEN a - b ELSE b - a

\* The alerts a step appends for a geofence.
NewAlertsFor(gid) ==
    {k \in (Len(alerts) + 1)..Len(alerts') : alerts'[k].geofenceId = gid}

\* The stored alerts stay as they are.
AlertsKept ==
    /\ Len(alerts') >= Len(alerts)
    /\ \A k \in 1..Len(alerts) : alerts'[k] = alerts[k]

\* C19: a location report appends exactly one enter alert, of the device and at
\* the reported point, for each geofence of the device that is active, alerts
\* on entering and has the point at a distance of at most its radius, the
\* centre included.
C19_EnterAlertPerGeofence ==
    [][\A d \in Registered, latitude \in Latitudes :
          Location(d, latitude, 0)
          => /\ AlertsKept
             /\ \A g \in geofences :
                   (/\ g.deviceId = d
                    /\ g.isActive
                    /\ g.alertOnEnter
                    /\ Distance(latitude, g.centerLatitude) <= g.radius)
                   => /\ Cardinality(NewAlertsFor(g.id)) = 1
                      /\ \A k \in NewAlertsFor(g.id) :
                            /\ alerts'[k].alertType = "enter"
                            /\ alerts'[k].deviceId = d
                            /\ alerts'[k].latitude = latitude]_vars

\* C19 witness: one report on the boundary of two geofences of a device raised
\* one alert for each, and another report raised an alert at the centre of a
\* geofence.
C19_Witness ==
    /\ Len(alerts) = 3
    /\ \E g, h \in geofences :
          /\ g.id # h.id
          /\ g.radius > 0 /\ h.radius > 0
          /\ \E i, j, k \in 1..Len(alerts) :
                /\ alerts[i].geofenceId = g.id
                /\ alerts[j].geofenceId = h.id
                /\ alerts[i].latitude = alerts[j].latitude
                /\ Distance(alerts[i].latitude, g.centerLatitude) = g.radius
                /\ Distance(alerts[j].latitude, h.centerLatitude) = h.radius
                /\ alerts[k].latitude = g.centerLatitude
                /\ alerts[k].geofenceId = g.id

\* C20: a location report appends no alert for a geofence that is inactive, does
\* not alert on entering, belongs to another device or has the point farther
\* than its radius; a report outside every active geofence of the device appends
\* no alert at all.
C20_NoAlertOutside ==
    [][\A d \in Registered, latitude \in Latitudes :
          Location(d, latitude, 0)
          => /\ AlertsKept
             /\ \A g \in geofences :
                   (\/ g.deviceId # d
                    \/ ~g.isActive
                    \/ ~g.alertOnEnter
                    \/ Distance(latitude, g.centerLatitude) > g.radius)
                   => NewAlertsFor(g.id) = {}
             /\ (\A g \in geofences :
                    (g.deviceId = d /\ g.isActive)
                    => Distance(latitude, g.centerLatitude) > g.radius)
                => alerts' = alerts]_vars

\* C20 witness: a report was stored and raised no alert although the device has
\* an active geofence with the point outside it and an inactive geofence with
\* the point inside it.
C20_Witness ==
    /\ Len(locations) = 1
    /\ alerts = <<>>
    /\ \E g, h \in geofences :
          /\ g.deviceId = locations[1].deviceId
          /\ h.deviceId = locations[1].deviceId
          /\ g.isActive /\ g.alertOnEnter
          /\ Distance(locations[1].latitude, g.centerLatitude) > g.radius
          /\ ~h.isActive /\ h.alertOnEnter
          /\ Distance(locations[1].latitude, h.centerLatitude) <= h.radius

\* The stored alerts of a geofence.
AlertsFor(as, gid) == {k \in 1..Len(as) : as[k].geofenceId = gid}

\* C21: a location report inside an active geofence of the device that alerts on
\* entering adds one alert to the alerts of the geofence, however many alerts
\* earlier reports left there.
C21_NoAlertDedup ==
    [][\A d \in Registered, latitude \in Latitudes :
          Location(d, latitude, 0)
          => \A g \in geofences :
                (/\ g.deviceId = d
                 /\ g.isActive
                 /\ g.alertOnEnter
                 /\ Distance(latitude, g.centerLatitude) <= g.radius)
                => Cardinality(AlertsFor(alerts', g.id))
                       = Cardinality(AlertsFor(alerts, g.id)) + 1]_vars

\* C21 witness: two consecutive reports of the same point inside a geofence, and
\* nothing else since the geofence was created, left two alerts for it.
C21_Witness ==
    /\ Len(locations) = 2
    /\ locations[1] = locations[2]
    /\ Len(alerts) = 2
    /\ alerts[1] = alerts[2]
    /\ Cardinality(geofences) = 1
    /\ geoCount = 1

\* C22: every stored alert is an enter alert.
C22_OnlyEnterAlerts ==
    \A k \in 1..Len(alerts) : alerts[k].alertType = "enter"

\* C22 witness: a report inside a geofence that alerts on leaving was followed
\* by a report outside it, and the only alert is the enter alert of the first.
C22_Witness ==
    /\ Len(locations) = 2
    /\ Len(alerts) = 1
    /\ alerts[1].latitude = locations[1].latitude
    /\ \E g \in geofences :
          /\ g.id = alerts[1].geofenceId
          /\ g.deviceId = locations[2].deviceId
          /\ g.isActive /\ g.alertOnExit
          /\ Distance(locations[1].latitude, g.centerLatitude) <= g.radius
          /\ Distance(locations[2].latitude, g.centerLatitude) > g.radius

\* The active geofences of a device.
ActiveGeofences(gs, d) == {g \in gs : g.deviceId = d /\ g.isActive}

\* The commands a step appends that have a type.
NewCommandsOf(t) ==
    {i \in (Len(commands) + 1)..Len(commands') : commands'[i].commandType = t}

\* C23: deleting a geofence of a device appends exactly one
\* disable_geofence_monitoring command when the geofence was the last active one
\* of the device, and none when another active geofence of the device remains.
C23_DisableOnLastActive ==
    [][\A d \in OneDevice, gid \in 1..MaxGeofences :
          GeofenceDelete(d, gid)
          => \A g \in geofences :
                (g.id = gid /\ g.deviceId = d)
                => LET remaining == ActiveGeofences(geofences, d) \ {g}
                   IN  /\ (g.isActive /\ remaining = {})
                          => Cardinality(NewCommandsOf(
                                 "disable_geofence_monitoring")) = 1
                       /\ remaining # {}
                          => NewCommandsOf("disable_geofence_monitoring") = {}]_vars

\* C24: creating a geofence while an enable_geofence_monitoring command is
\* pending for the device leaves that command the only pending one of its type.
C24_EnableDeduplicated ==
    [][\A d \in OneDevice, body \in GeofenceBodies :
          (/\ PendingIn(commands, d, "enable_geofence_monitoring") # {}
           /\ GeofenceCreate(d, body))
          => PendingIn(commands', d, "enable_geofence_monitoring")
                 = PendingIn(commands, d, "enable_geofence_monitoring")]_vars

\* The answer to a request the store failed.
InternalErrorReply(r) == r.code = 500

\* C25: a location request in which a store call of the geofence evaluation
\* fails stores the reported location and is answered with success and the
\* stored location.
C25_GeofencingFailureSwallowed ==
    [][\A d \in OneDevice, latitude \in FailureLatitudes, done \in FailurePoints :
          LocationGeofencingFails(d, latitude, 0, done)
          => /\ last'.code = 201
             /\ Len(locations') = Len(locations) + 1
             /\ \A k \in 1..Len(locations) : locations'[k] = locations[k]
             /\ locations'[Len(locations')]
                    = [deviceId |-> d, latitude |-> latitude, longitude |-> 0]
             /\ last'.body = locations'[Len(locations')]]_vars

\* C25 witness: the only report, made inside two stored geofences, was answered
\* with the stored location although the evaluation stopped after the first
\* alert.
C25_Witness ==
    /\ last.code = 201
    /\ Len(locations) = 1
    /\ last.body = locations[1]
    /\ Cardinality(geofences) = 2
    /\ \A g \in geofences :
          Distance(locations[1].latitude, g.centerLatitude) <= g.radius
    /\ Len(alerts) = 1

\* C26: a request in which a store call outside the geofence evaluation fails
\* is answered with an internal error: a failing write of the geofence create
\* and delete handlers, the enqueueing of the monitoring command included, and
\* a failing write of the location.
C26_StoreFailureSurfaced ==
    [][/\ \A d \in OneDevice, body \in FailureBodies, point \in GeofenceCreateWrites :
             GeofenceCreateFailing(d, body, point) => InternalErrorReply(last')
       /\ \A d \in OneDevice, gid \in 1..MaxGeofences, point \in GeofenceDeleteWrites :
             GeofenceDeleteFailing(d, gid, point) => InternalErrorReply(last')
       /\ \A d \in OneDevice, latitude \in FailureLatitudes :
             LocationStoreFails(d, latitude, 0) => InternalErrorReply(last')]_vars

\* C30: a Create of update_config whose configuration write fails after the
\* command write is answered with an internal error; the new command is stored
\* pending, the update_config commands that were pending are cancelled, and no
\* configuration row and no log entry is written.
C30_DualWriteNotAtomic ==
    [][\A d \in OneDevice, body \in TwoDeviceBodies :
          CreateFailing(d, body, "createDeviceConfiguration")
          => /\ InternalErrorReply(last')
             /\ Len(commands') = Len(commands) + 1
             /\ commands'[Len(commands')].commandType = "update_config"
             /\ commands'[Len(commands')].commandData = body.commandData
             /\ commands'[Len(commands')].status = "pending"
             /\ \A i \in 1..Len(commands) :
                   commands'[i] =
                       IF i \in PendingIn(commands, d, "update_config")
                       THEN [commands[i] EXCEPT !.status = "cancelled"]
                       ELSE commands[i]
             /\ configs' = configs
             /\ logs' = logs]_vars

\* C30 witness: after the failure the newest command is a pending update_config
\* whose payload is in no configuration row, an older update_config command is
\* cancelled, and the configuration row of the older one is still pending.
C30_Witness ==
    /\ InternalErrorReply(last)
    /\ Len(commands) = 2
    /\ commands[1].commandType = "update_config"
    /\ commands[1].status = "cancelled"
    /\ commands[2].commandType = "update_config"
    /\ commands[2].status = "pending"
    /\ Len(configs) = 1
    /\ configs[1].configData = commands[1].commandData
    /\ configs[1].configData # commands[2].commandData
    /\ configs[1].status = "pending"
    /\ Len(logs) = 1

\* C29: a successful Create of update_config appends exactly one pending
\* configuration row that carries the payload of the request, whatever the
\* payload, an absent one included; a successful Create of another type leaves
\* the configurations alone.
C29_ConfigRowPerUpdateConfig ==
    [][\A d \in OneDevice, body \in CreateBodies :
          (Create(d, body) /\ last'.code = 201)
          => IF body.commandType = "update_config"
             THEN /\ Len(configs') = Len(configs) + 1
                  /\ \A j \in 1..Len(configs) : configs'[j] = configs[j]
                  /\ configs'[Len(configs')].status = "pending"
                  /\ configs'[Len(configs')].configData = body.commandData
             ELSE configs' = configs]_vars

\* The result of a call of calculateDistance between two points.
Measured(r, p, q) == r.code = 200 /\ r.body.from = p /\ r.body.to = q

\* C27: the distance between (0, 0) and (0, 0) is 0, and the distance between
\* (0, 0) and (0, 1) is within 1 % of 111,195 m.
C27_HaversineValues ==
    /\ Measured(last, <<0, 0>>, <<0, 0>>) => last.body.distance = 0
    /\ Measured(last, <<0, 0>>, <<0, 1>>)
          => /\ 100 * last.body.distance >= 99 * 111195
             /\ 100 * last.body.distance <= 101 * 111195

\* C27 witness: the distance between (0, 0) and (0, 1) has been computed and is
\* not 0.
C27_Witness ==
    /\ Measured(last, <<0, 0>>, <<0, 1>>)
    /\ last.body.distance > 0

\* C28: a Create request that passed the dedup check writes its command and
\* answers success whatever other requests wrote in between, so two requests of
\* one device and one type that both passed the check both succeed.
C28_WriteAfterCheck ==
    [][\A r \in Requests :
          CreateFinish(r)
          => /\ inflight'[r].pc = "done"
             /\ inflight'[r].code = 201
             /\ Len(commands') = Len(commands) + 1
             /\ commands'[Len(commands')].deviceId = inflight[r].deviceId
             /\ commands'[Len(commands')].commandType = inflight[r].body.commandType
             /\ commands'[Len(commands')].status = "pending"
             /\ inflight[r].body.commandType # "update_config"
                   => \A i \in 1..Len(commands) : commands'[i] = commands[i]]_vars

\* C28 witness: two concurrent Create requests of one device and one type other
\* than update_config were both answered with success, and the two commands of
\* that type are both pending.
C28_Witness ==
    /\ \A r \in Requests : inflight[r].pc = "done" /\ inflight[r].code = 201
    /\ inflight[1].deviceId = inflight[2].deviceId
    /\ inflight[1].body.commandType = inflight[2].body.commandType
    /\ inflight[1].body.commandType # "update_config"
    /\ Cardinality(PendingIn(commands, inflight[1].deviceId,
                             inflight[1].body.commandType)) = 2

\* C31: a heartbeat and a poll change no command and no configuration, and a
\* heartbeat's response lists every command of the device that is pending, so
\* a pending command is delivered again by each heartbeat while it is pending.
C31_DeliveryReadOnly ==
    [][\A d \in OneDevice :
          (Heartbeat(d) \/ ListPending(d))
          => /\ commands' = commands
             /\ configs' = configs
             /\ Heartbeat(d)
                => /\ HeartbeatReply(last')
                   /\ \A i \in PendingCommandPositions(d) :
                         /\ commands'[i].status = "pending"
                         /\ \E k \in 1..Len(last'.body.commands) :
                               last'.body.commands[k] = commands[i]]_vars

\* C31 witness: a heartbeat answered with two pending commands, both still
\* pending, next to a command that is no longer pending and is not listed.
C31_Witness ==
    /\ HeartbeatReply(last)
    /\ Len(last.body.commands) = 2
    /\ \A k \in 1..2 :
          \E i \in 1..Len(commands) :
              commands[i] = last.body.commands[k] /\ commands[i].status = "pending"
    /\ \E i \in 1..Len(commands) : commands[i].status # "pending"

\* A step that stores a new command or a new configuration.
Creates == Len(commands') > Len(commands) \/ Len(configs') > Len(configs)

DeliveredIds(cmds, cfgs, d) ==
    LET items == allCommands(cmds, cfgs, d)
    IN  {items[k].id : k \in 1..Len(items)}

\* C33: the device-facing acknowledgement of an id that the poll endpoint
\* delivers to the device succeeds, and the item is no longer delivered after
\* it, be it a command or a projected configuration.
C33_DeliveredIdsAcknowledgeable ==
    [][\A d \in OneDevice, id \in Ids, st \in DeviceAckStatuses :
          (id \in DeliveredIds(commands, configs, d) /\ DeviceAck(d, id, st))
          => /\ last'.code = 200
             /\ id \notin DeliveredIds(commands', configs', d)]_vars

\* C34: a successful Create of update_config with a payload for a device with
\* an empty merged list leaves exactly two items in the merged list, both
\* update_config, with distinct ids and the same payload; an Acknowledge or a
\* Cancel of one id leaves every other delivered item in the merged list.
C34_TwoEntriesPerUpdateConfig ==
    [][/\ \A d \in OneDevice, body \in ConfigBodies :
            (/\ allCommands(commands, configs, d) = <<>>
             /\ Create(d, body)
             /\ last'.code = 201)
            => LET items == allCommands(commands', configs', d)
               IN  /\ Len(items) = 2
                   /\ items[1].commandType = "update_config"
                   /\ items[2].commandType = "update_config"
                   /\ items[1].id # items[2].id
                   /\ items[1].commandData = body.commandData
                   /\ items[2].commandData = body.commandData
       /\ \A d \in OneDevice, id \in Ids :
            (Ack(d, id, "executed") \/ Cancel(d, id))
            => DeliveredIds(commands, configs, d) \ {id}
                  \subseteq DeliveredIds(commands', configs', d)]_vars

\* The command whose Create wrote the j-th configuration row: the j-th stored
\* command of type update_config that carries a payload.
WritesConfigurationRow(command) ==
    command.commandType = "update_config" /\ command.commandData # Absent
WriterOf(j) ==
    CHOOSE i \in 1..Len(commands) :
        /\ WritesConfigurationRow(commands[i])
        /\ Cardinality({h \in 1..i : WritesConfigurationRow(commands[h])}) = j

\* C35: the configuration row written by the Create of an update_config command
\* that is cancelled is not pending, so the merged list does not deliver it.
C35_CancelledPayloadNotDelivered ==
    \A j \in 1..Len(configs) :
        commands[WriterOf(j)].status = "cancelled"
        => /\ configs[j].status # "pending"
           /\ configs[j].id \notin DeliveredIds(commands, configs, configs[j].deviceId)

\* C36: a Cancel or an Acknowledge addressed to a device leaves every command
\* and every configuration of another device as it was.
C36_OtherDeviceUntouched ==
    [][\A d \in Registered, id \in Ids :
          (Cancel(d, id) \/ Ack(d, id, "executed"))
          => /\ Len(commands') = Len(commands)
             /\ Len(configs') = Len(configs)
             /\ \A i \in 1..Len(commands) :
                   commands[i].deviceId # d => commands'[i] = commands[i]
             /\ \A j \in 1..Len(configs) :
                   configs[j].deviceId # d => configs'[j] = configs[j]]_vars

\* C37: the writes of an update_config Create cancel the commands the request
\* read as pending before it was suspended and no other, insert a pending
\* command and a pending configuration row, and leave the earlier configuration
\* rows alone; an update_config command inserted by a concurrent request after
\* the read stays pending.
C37_CancelsWhatItRead ==
    [][\A r \in Requests :
          (CreateFinish(r) /\ inflight[r].body.commandType = "update_config")
          => /\ Len(commands') = Len(commands) + 1
             /\ \A i \in 1..Len(commands) :
                   commands'[i] = IF commands[i].id \in inflight[r].read
                                  THEN [commands[i] EXCEPT !.status = "cancelled"]
                                  ELSE commands[i]
             /\ commands'[Len(commands')].commandType = "update_config"
             /\ commands'[Len(commands')].status = "pending"
             /\ Len(configs') = Len(configs) + 1
             /\ \A j \in 1..Len(configs) : configs'[j] = configs[j]
             /\ configs'[Len(configs')].status = "pending"
             /\ configs'[Len(configs')].configData = inflight[r].body.commandData]_vars

\* C37 witness: two concurrent update_config requests of one device were both
\* answered with success and left two pending update_config commands, none
\* cancelled, and two pending configuration rows.
C37_Witness ==
    /\ \A r \in Requests :
          /\ inflight[r].pc = "done" /\ inflight[r].code = 201
          /\ inflight[r].body.commandType = "update_config"
          /\ inflight[r].deviceId = "d1"
    /\ Len(commands) = 2
    /\ \A i \in 1..2 : /\ commands[i].commandType = "update_config"
                       /\ commands[i].status = "pending"
    /\ Len(configs) = 2
    /\ \A j \in 1..2 : configs[j].status = "pending"

\* C38: the writes of a lost-mode request that passed its conflict check cancel
\* the command the request found before it was suspended and no other, insert a
\* pending command of the wanted type and answer success, whatever a concurrent
\* request wrote in between.
C38_ToggleWritesAfterCheck ==
    [][\A r \in Requests :
          LostModeFinish(r)
          => /\ inflight'[r].pc = "done"
             /\ inflight'[r].code = 200
             /\ Len(commands') = Len(commands) + 1
             /\ \A i \in 1..Len(commands) :
                   commands'[i] = IF commands[i].id \in inflight[r].read
                                  THEN [commands[i] EXCEPT !.status = "cancelled"]
                                  ELSE commands[i]
             /\ commands'[Len(commands')].deviceId = inflight[r].deviceId
             /\ commands'[Len(commands')].commandType = Wanted(inflight[r].body.lostMode)
             /\ commands'[Len(commands')].status = "pending"]_vars

\* C38 witness: an enable and a disable request that ran concurrently for a
\* device without lost-mode commands were both answered with success, and the
\* enable_lost_mode and the disable_lost_mode command are both pending.
C38_Witness ==
    /\ \A r \in Requests :
          /\ inflight[r].pc = "done" /\ inflight[r].code = 200
          /\ inflight[r].deviceId = "d1"
    /\ inflight[1].body.lostMode # inflight[2].body.lostMode
    /\ Len(commands) = 2
    /\ PendingIn(commands, "d1", "enable_lost_mode") # {}
    /\ PendingIn(commands, "d1", "disable_lost_mode") # {}

\* The ids of the geofences of a device that alert for a report at a latitude.
EnterIds(d, latitude) ==
    {g.id : g \in {h \in geofences : /\ h.deviceId = d
                                      /\ h.isActive
                                      /\ h.alertOnEnter
                                      /\ Distance(latitude, h.centerLatitude)
                                            <= h.radius}}

\* C39: a location report whose geofence evaluation meets a failing store call
\* after `done` writes keeps the stored alerts and log entries and appends the
\* alerts and log entries of the writes made so far: alert and log entry
\* alternate, the alert first, and the alerts are those of the first geofences
\* of the sequence, in its order; no geofence after them gets an alert, though
\* the point is inside it, and at least one geofence containing the point is
\* left without its alert or without its log entry.
C39_FailureStopsEvaluation ==
    [][\A d \in OneDevice, latitude \in FailureLatitudes, done \in FailurePoints :
          LocationGeofencingFails(d, latitude, 0, done)
          => LET n == Len(alerts') - Len(alerts)
                 m == Len(logs') - Len(logs)
                 new == [k \in 1..n |-> alerts'[Len(alerts) + k].geofenceId]
                 alerted == {new[k] : k \in 1..n}
                 entered == EnterIds(d, latitude)
             IN  /\ AlertsKept
                 /\ \A k \in 1..Len(logs) : logs'[k] = logs[k]
                 /\ n + m = done
                 /\ m <= n /\ n <= m + 1
                 /\ alerted \subseteq entered
                 /\ \A k \in 1..n, l \in 1..n : k < l => new[k] < new[l]
                 /\ \A a \in alerted, b \in entered \ alerted : a < b
                 /\ entered # {} => (n < Cardinality(entered) \/ m < n)]_vars

\* C39 witness: the only report was made inside two stored geofences; the
\* evaluation wrote the alert of the first geofence and failed before the alert
\* of the second, and the request was answered with the stored location.
C39_Witness ==
    /\ last.code = 201
    /\ Len(locations) = 1
    /\ last.body = locations[1]
    /\ EnterIds("d1", locations[1].latitude) = {1, 2}
    /\ Len(alerts) = 1
    /\ alerts[1].geofenceId = 1
    /\ AlertsFor(alerts, 2) = {}

====
